---- MODULE Spec2Model ----
(***************************************************************************)
(* Model of openapi-to-axum: the OpenAPI parser (openapi-parser/src/lib.rs)*)
(* and the Axum code generator (code-generator/src/lib.rs), driven as the  *)
(* CLI drives them (cli/src/main.rs): read, parse, generate.               *)
(*                                                                         *)
(* Strings are sequences of tokens.  A token stands for one character or   *)
(* for a run of letters ("Task"); the sanitizers work token by token, as   *)
(* str::replace works character by character.                              *)
(***************************************************************************)
EXTENDS Integers, Sequences, FiniteSets, TLC

VARIABLES input, pc, ir, out, history

vars == <<input, pc, ir, out, history>>

(***************************************************************************)
(* Bounds of the model.                                                    *)
(***************************************************************************)
\* keys a raw schema node of the shape family carries at most
MaxKeys == 3
\* paths of a document of the route family
MaxPaths == 2
\* properties of an object schema of the DTO family
MaxProps == 2
\* operations of a path item of the route family
MaxOps == 2

(***************************************************************************)
(* Characters.                                                             *)
(***************************************************************************)
Letters ==
    {"a", "b", "x", "id", "title", "Task", "Missing", "listTasks", "tasks",
     "components", "schemas", "handle", "get", "post", "value"}

Digits == {"1"}

\* char::is_alphanumeric
is_alphanumeric(c) == c \in Letters \cup Digits

\* str::split('/').last(): the part after the last '/', the whole string
\* when it holds none.
RECURSIVE LastSegment(_)
LastSegment(s) ==
    IF Len(s) = 0 THEN <<>>
    ELSE IF s[Len(s)] = "/" THEN <<>>
    ELSE Append(LastSegment(SubSeq(s, 1, Len(s) - 1)), s[Len(s)])

\* "#/components/schemas/" followed by a name
Pointer(name) == <<"#", "/", "components", "/", "schemas", "/">> \o name

(***************************************************************************)
(* Identifier Sanitizer (code-generator/src/lib.rs:197-204).               *)
(***************************************************************************)
sanitize_identifier(ident) ==
    [i \in 1..Len(ident) |->
        IF ~is_alphanumeric(ident[i]) /\ ident[i] # "_" THEN "_" ELSE ident[i]]

sanitize_path(path) ==
    LET noSlash == [i \in 1..Len(path) |->
                        IF path[i] = "/" THEN "_" ELSE path[i]]
    IN  [i \in 1..Len(noSlash) |->
            IF ~is_alphanumeric(noSlash[i]) THEN "_" ELSE noSlash[i]]

\* proc_macro2::Ident::new, which format_ident! calls: it panics unless the
\* string is non-empty, starts with a letter or '_' and continues with
\* letters, digits and '_'.
ValidIdent(s) ==
    /\ Len(s) > 0
    /\ s[1] \in Letters \cup {"_"}
    /\ \A i \in 1..Len(s) : s[i] \in Letters \cup Digits \cup {"_"}

(***************************************************************************)
(* Raw input: a decoded YAML/JSON tree.  A key of a mapping is absent,     *)
(* holds a value of the type the IR field wants ("ok"), or holds a value   *)
(* of another type ("bad": a number or null where a string is wanted, a    *)
(* scalar where a mapping is wanted).                                      *)
(***************************************************************************)
Absent == [k |-> "absent"]
Bad == [k |-> "bad"]
Ok(v) == [k |-> "ok", v |-> v]

None == [k |-> "none"]
Some(v) == [k |-> "some", v |-> v]

\* a schema node with no key at all: {}
NoKeys ==
    [ref |-> Absent, allOf |-> Absent, oneOf |-> Absent, anyOf |-> Absent,
     not |-> Absent, type |-> Absent, properties |-> Absent,
     required |-> Absent, items |-> Absent, format |-> Absent,
     enum |-> Absent, discriminator |-> Absent]

SchemaKeys == DOMAIN NoKeys

ParseFail == [tag |-> "Fail"]

\* Option<T> field: an absent key is None, a well-typed one Some, and an
\* ill-typed one fails the variant.
OptOk(f) == f.k # "bad"
Opt(f) == IF f.k = "ok" THEN Some(f.v) ELSE None

(***************************************************************************)
(* Schema (openapi-parser/src/lib.rs:76-121): #[serde(untagged)] tries the *)
(* variants in declaration order and keeps the first that deserializes.    *)
(* Unknown keys are ignored by every variant (no deny_unknown_fields).     *)
(***************************************************************************)
\* the order with Object declared first
VariantOrder_ObjectFirst ==
    <<"Object", "Reference", "AllOf", "OneOf", "AnyOf", "Not", "SimpleType",
      "ArrayType">>

VariantOrder ==
    <<"Reference", "AllOf", "OneOf", "AnyOf", "Not", "Object", "SimpleType",
      "ArrayType">>

RECURSIVE parse_Schema(_)

\* One variant's derived Deserialize on node n: the variant's value, or
\* ParseFail when a field it requires is missing or a field it knows is
\* ill-typed.
TryVariant(v, n) ==
    LET children(s) == [i \in 1..Len(s) |-> parse_Schema(s[i])]
        listOk(f) == f.k = "ok" /\ \A i \in 1..Len(f.v) : parse_Schema(f.v[i]) # ParseFail
        props(f) == [p \in DOMAIN f.v |-> parse_Schema(f.v[p])]
        propsOk(f) == f.k = "absent" \/
                      (f.k = "ok" /\ \A p \in DOMAIN f.v : parse_Schema(f.v[p]) # ParseFail)
        boxOk(f) == f.k = "ok" /\ parse_Schema(f.v) # ParseFail
    IN
    CASE v = "Reference" ->
            IF n.ref.k = "ok"
            THEN [tag |-> "Reference", ref_ |-> n.ref.v] ELSE ParseFail
      [] v = "AllOf" ->
            IF listOk(n.allOf)
            THEN [tag |-> "AllOf", all_of |-> children(n.allOf.v)] ELSE ParseFail
      [] v = "OneOf" ->
            IF listOk(n.oneOf) /\ OptOk(n.discriminator)
            THEN [tag |-> "OneOf", one_of |-> children(n.oneOf.v),
                  discriminator |-> Opt(n.discriminator)]
            ELSE ParseFail
      [] v = "AnyOf" ->
            IF listOk(n.anyOf)
            THEN [tag |-> "AnyOf", any_of |-> children(n.anyOf.v)] ELSE ParseFail
      [] v = "Not" ->
            IF boxOk(n.not)
            THEN [tag |-> "Not", not |-> parse_Schema(n.not.v)] ELSE ParseFail
      [] v = "Object" ->
            IF /\ OptOk(n.type) /\ propsOk(n.properties) /\ OptOk(n.required)
               /\ (n.items.k = "absent" \/ boxOk(n.items))
               /\ OptOk(n.format) /\ OptOk(n.enum)
            THEN [tag |-> "Object",
                  type_ |-> Opt(n.type),
                  properties |-> IF n.properties.k = "ok"
                                 THEN Some(props(n.properties)) ELSE None,
                  required |-> Opt(n.required),
                  items |-> IF n.items.k = "ok"
                            THEN Some(parse_Schema(n.items.v)) ELSE None,
                  format |-> Opt(n.format),
                  enum_values |-> Opt(n.enum)]
            ELSE ParseFail
      [] v = "SimpleType" ->
            IF n.type.k = "ok" /\ OptOk(n.format) /\ OptOk(n.enum)
            THEN [tag |-> "SimpleType", type_ |-> n.type.v,
                  format |-> Opt(n.format), enum_values |-> Opt(n.enum)]
            ELSE ParseFail
      [] v = "ArrayType" ->
            IF n.type.k = "ok" /\ boxOk(n.items)
            THEN [tag |-> "ArrayType", type_ |-> n.type.v,
                  items |-> parse_Schema(n.items.v)]
            ELSE ParseFail

RECURSIVE FirstMatch(_, _, _)
FirstMatch(order, i, n) ==
    IF i > Len(order) THEN ParseFail
    ELSE LET r == TryVariant(order[i], n)
         IN  IF r # ParseFail THEN r ELSE FirstMatch(order, i + 1, n)

parse_Schema(n) == FirstMatch(VariantOrder, 1, n)

(***************************************************************************)
(* Operation, PathItem, Components, OpenApiSpec                            *)
(* (openapi-parser/src/lib.rs:13-74).  The field operation_id carries no   *)
(* serde rename (the attribute at line 37 is commented out), so it is read *)
(* from the key `operation_id`; the key `operationId` is an unknown key    *)
(* and is ignored.  `responses` is required.  Parameters, request bodies   *)
(* and response contents are not read by the generator and are left out,   *)
(* as are `openapi` and `info`.                                            *)
(***************************************************************************)
parse_Operation(o) ==
    IF o.responses.k = "ok" /\ OptOk(o.operation_id)
    THEN [operation_id |-> Opt(o.operation_id)]
    ELSE ParseFail

Methods == {"get", "post", "put", "delete"}

parse_PathItem(p) ==
    IF \A m \in Methods : p[m].k = "absent" \/
                          (p[m].k = "ok" /\ parse_Operation(p[m].v) # ParseFail)
    THEN [m \in Methods |->
            IF p[m].k = "ok" THEN Some(parse_Operation(p[m].v)) ELSE None]
    ELSE ParseFail

parse_Components(c) ==
    IF \A name \in DOMAIN c.schemas : parse_Schema(c.schemas[name]) # ParseFail
    THEN [schemas |-> [name \in DOMAIN c.schemas |-> parse_Schema(c.schemas[name])]]
    ELSE ParseFail

\* OpenApiSpec::from_yaml / from_json: Ok(spec) or Err(ParseError)
from_yaml(doc) ==
    IF /\ \A path \in DOMAIN doc.paths : parse_PathItem(doc.paths[path]) # ParseFail
       /\ doc.components.k = "absent" \/
          (doc.components.k = "ok" /\ parse_Components(doc.components.v) # ParseFail)
    THEN [k |-> "Ok",
          paths |-> [path \in DOMAIN doc.paths |-> parse_PathItem(doc.paths[path])],
          components |-> IF doc.components.k = "ok"
                         THEN Some(parse_Components(doc.components.v)) ELSE None]
    ELSE [k |-> "Err", error |-> "ParseError"]

(***************************************************************************)
(* Generated code: type expressions and items of the token stream.         *)
(***************************************************************************)
\* format_ident! on a string that is no identifier panics
Panic == [k |-> "panic"]

TIdent(s) == [t |-> "ident", name |-> s]
TPath(s) == [t |-> "path", name |-> s]
TVec(of) == [t |-> "Vec", of |-> of]
TOption(of) == [t |-> "Option", of |-> of]

\* schema_to_type is a match without an arm for the AllOf, OneOf, AnyOf, Not
\* and ArrayType variants, and the function has no error to return: for
\* them it yields no type expression at all.
Unmatched == [t |-> "unmatched"]

(***************************************************************************)
(* Type Mapper: CodeGenerator::schema_to_type                              *)
(* (code-generator/src/lib.rs:101-148).  The arm written Schema::Simple is *)
(* read as the parser's SimpleType variant, and the match on the Object    *)
(* variant's type_ as a match on the string it holds, None taking the      *)
(* wildcard arm.                                                           *)
(***************************************************************************)
RECURSIVE schema_to_type(_)
schema_to_type(schema) ==
    CASE schema.tag = "Reference" ->
            LET type_name == LastSegment(schema.ref_)
            IN  IF ValidIdent(type_name) THEN TIdent(type_name) ELSE Panic
      [] schema.tag = "Object" ->
            IF schema.type_ = Some("array") THEN
                IF schema.items # None THEN
                    LET item_type == schema_to_type(schema.items.v)
                    IN  IF item_type = Panic THEN Panic ELSE TVec(item_type)
                ELSE TVec(TPath("serde_json::Value"))
            ELSE IF schema.type_ = Some("object") THEN TPath("serde_json::Value")
            ELSE TPath("serde_json::Value")
      [] schema.tag = "SimpleType" ->
            IF schema.type_ = "string" THEN
                IF schema.format = Some("uuid") THEN TPath("uuid::Uuid")
                ELSE TPath("String")
            ELSE IF schema.type_ = "integer" THEN
                IF schema.format = Some("int32") THEN TPath("i32")
                ELSE TPath("i64")
            ELSE IF schema.type_ = "number" THEN TPath("f64")
            ELSE IF schema.type_ = "boolean" THEN TPath("bool")
            ELSE TPath("serde_json::Value")
      [] OTHER -> Unmatched

(***************************************************************************)
(* DTO Emitter: CodeGenerator::schema_to_struct                            *)
(* (code-generator/src/lib.rs:43-99).  fieldOrder is the order in which    *)
(* the HashMap of properties is iterated.                                  *)
(***************************************************************************)
\* any `required` list makes every field required
is_required_AnyList(required, field_name) == required # None

\* lines 60-63
is_required(required, field_name) ==
    IF required # None
    THEN \E i \in 1..Len(required.v) : required.v[i] = field_name
    ELSE FALSE

\* lines 55-70: the closure mapped over the properties
struct_field(required, field_name, field_schema) ==
    LET field_ident == sanitize_identifier(field_name)
        field_type == schema_to_type(field_schema)
    IN  IF ~ValidIdent(field_ident) \/ field_type = Panic THEN Panic
        ELSE IF is_required(required, field_name)
        THEN [ident |-> field_ident, ty |-> field_type, pub |-> TRUE]
        ELSE [ident |-> field_ident, ty |-> TOption(field_type), pub |-> TRUE]

schema_to_struct(name, schema, fieldOrder) ==
    LET struct_name == sanitize_identifier(name)
    IN
    IF ~ValidIdent(struct_name) THEN Panic
    ELSE IF schema.tag = "Object" THEN
        IF schema.properties # None THEN
            LET props == schema.properties.v
                fields == [i \in 1..Len(fieldOrder) |->
                             struct_field(schema.required, fieldOrder[i],
                                          props[fieldOrder[i]])]
            IN  IF \E i \in 1..Len(fields) : fields[i] = Panic THEN Panic
                ELSE [kind |-> "struct", name |-> struct_name, fields |-> fields]
        ELSE [kind |-> "struct", name |-> struct_name, fields |-> <<>>]
    ELSE
        LET field_type == schema_to_type(schema)
        IN  IF field_type = Panic THEN Panic
            ELSE [kind |-> "struct", name |-> struct_name,
                  fields |-> <<[ident |-> <<"value">>, ty |-> field_type,
                                pub |-> FALSE]>>]

\* a TokenStream: the items emitted, in order
Tokens(items) == [k |-> "tokens", items |-> items]

\* TokenStream::extend over a sequence of parts, a panic in any part
\* ending the run
RECURSIVE Concat(_)
Concat(parts) ==
    IF Len(parts) = 0 THEN Tokens(<<>>)
    ELSE LET rest == Concat(Tail(parts))
         IN  IF Head(parts) = Panic \/ rest = Panic THEN Panic
             ELSE Tokens(Head(parts).items \o rest.items)

\* lines 30-41; order.schemas is the iteration order of components.schemas
generate_data_structures(spec, order) ==
    IF spec.components # None THEN
        LET schemas == spec.components.v.schemas
            each == [i \in 1..Len(order.schemas) |->
                        LET name == order.schemas[i]
                            struct_tokens == schema_to_struct(name, schemas[name],
                                                              order.fields[name])
                        IN  IF struct_tokens = Panic THEN Panic
                            ELSE Tokens(<<struct_tokens>>)]
        IN  Concat(each)
    ELSE Tokens(<<>>)

(***************************************************************************)
(* Route Emitter (code-generator/src/lib.rs:150-195).                      *)
(***************************************************************************)
generate_handler(method, path, operation) ==
    LET handler_name ==
            IF operation.operation_id # None
            THEN sanitize_identifier(operation.operation_id.v)
            ELSE <<"handle", "_", method, "_">> \o sanitize_path(path)
    IN  IF ~ValidIdent(handler_name) THEN Panic
        ELSE Tokens(<<[kind |-> "route", path |-> path, method |-> method,
                       handler |-> handler_name],
                      [kind |-> "fn", name |-> handler_name]>>)

generate_route_definition(path, path_item) ==
    Concat(<<IF path_item["get"] # None
             THEN generate_handler("get", path, path_item["get"].v)
             ELSE Tokens(<<>>),
             IF path_item["post"] # None
             THEN generate_handler("post", path, path_item["post"].v)
             ELSE Tokens(<<>>)>>)

\* order.paths is the iteration order of spec.paths
generate_routes(spec, order) ==
    Concat([i \in 1..Len(order.paths) |->
              generate_route_definition(order.paths[i], spec.paths[order.paths[i]])])

(***************************************************************************)
(* Module Assembler: CodeGenerator::generate_axum_app                      *)
(* (code-generator/src/lib.rs:8-28).  The quoted template interpolates     *)
(* #structs, then #routes at item level, then #routes again inside         *)
(* create_app after axum::Router::new().                                   *)
(***************************************************************************)
generate_axum_app(spec, order) ==
    LET structs == generate_data_structures(spec, order)
        routes == generate_routes(spec, order)
    IN  IF structs = Panic \/ routes = Panic THEN Panic
        ELSE [k |-> "app", top |-> structs.items \o routes.items,
              create_app |-> routes.items]

(***************************************************************************)
(* Iteration orders of the std HashMaps (RandomState: any order).          *)
(***************************************************************************)
RECURSIVE Perms(_)
Perms(S) ==
    IF S = {} THEN {<<>>}
    ELSE UNION {{<<x>> \o p : p \in Perms(S \ {x})} : x \in S}

SchemaNames(spec) ==
    IF spec.components # None THEN DOMAIN spec.components.v.schemas ELSE {}

FieldNames(spec, name) ==
    LET schema == spec.components.v.schemas[name]
    IN  IF schema.tag = "Object" /\ schema.properties # None
        THEN DOMAIN schema.properties.v ELSE {}

Orders(spec) ==
    LET names == SchemaNames(spec)
        all == UNION {Perms(FieldNames(spec, n)) : n \in names}
    IN  {[schemas |-> so, fields |-> fo, paths |-> po] :
            so \in Perms(names),
            fo \in {f \in [names -> all] :
                        \A n \in names : f[n] \in Perms(FieldNames(spec, n))},
            po \in Perms(DOMAIN spec.paths)}

(***************************************************************************)
(* Input documents.                                                        *)
(***************************************************************************)
Str(tok) == <<tok>>

Task == Str("Task")
a_dash_b == <<"a", "-", "b">>
a_under_b == <<"a", "_", "b">>
one_x == <<"1", "x">>

StrNode == [NoKeys EXCEPT !.type = Ok("string")]
RefNode(name) == [NoKeys EXCEPT !.ref = Ok(Pointer(name))]
AllOfNode == [NoKeys EXCEPT !.allOf = Ok(<<StrNode>>)]
ArrNode(item) == [NoKeys EXCEPT !.type = Ok("array"), !.items = Ok(item)]
\* a mapping no variant accepts: its `type` is no string
UnparsableNode == [NoKeys EXCEPT !.type = Bad]

Doc(paths, components) == [paths |-> paths, components |-> components]
Schemas(m) == Ok([schemas |-> m])

\* ---- shape family: one component whose node carries up to MaxKeys keys
KeySeq ==
    <<"ref", "allOf", "oneOf", "anyOf", "not", "type", "properties",
      "required", "items", "format", "enum", "discriminator">>

KeyValues(key) ==
    CASE key = "ref" -> {Bad, Ok(Pointer(Task))}
      [] key \in {"allOf", "oneOf", "anyOf"} -> {Bad, Ok(<<StrNode>>)}
      [] key = "not" -> {Bad, Ok(StrNode)}
      [] key = "type" -> {Bad, Ok("object"), Ok("array"), Ok("string"), Ok("integer")}
      [] key = "properties" -> {Bad, Ok(Str("id") :> StrNode)}
      [] key = "required" -> {Bad, Ok(<<Str("id")>>)}
      [] key = "items" -> {Bad, Ok(StrNode), Ok(UnparsableNode)}
      [] key = "format" -> {Bad, Ok("uuid")}
      [] key = "enum" -> {Bad, Ok(<<>>)}
      [] key = "discriminator" -> {Bad, Ok("kind")}

RECURSIVE NodesFrom(_, _)
NodesFrom(i, budget) ==
    IF i > Len(KeySeq) THEN {NoKeys}
    ELSE NodesFrom(i + 1, budget) \cup
         (IF budget = 0 THEN {}
          ELSE {[n EXCEPT ![KeySeq[i]] = v] :
                    n \in NodesFrom(i + 1, budget - 1), v \in KeyValues(KeySeq[i])})

ShapeNodes == NodesFrom(1, MaxKeys)

ShapeDocs == {Doc(<<>>, Schemas(Task :> n)) : n \in ShapeNodes}

\* ---- route family: up to MaxPaths paths, no components
RawOp(operationId, operation_id, responses) ==
    [operationId |-> operationId, operation_id |-> operation_id,
     responses |-> responses]

PlainOp == RawOp(Absent, Absent, Ok("200"))

GetOps ==
    {PlainOp,
     RawOp(Ok(Str("listTasks")), Absent, Ok("200")),
     RawOp(Absent, Ok(Str("listTasks")), Ok("200"))}

PathItems ==
    {item \in [get : {Absent} \cup {Ok(o) : o \in GetOps},
               post : {Absent, Ok(PlainOp)},
               put : {Absent, Ok(PlainOp)},
               delete : {Absent, Ok(PlainOp)}] :
        Cardinality({m \in Methods : item[m] # Absent}) <= MaxOps}

PathPool == {<<"/", "tasks">>, <<"/", "a", "-", "b">>, <<"/", "a", "_", "b">>}

RouteDocs ==
    {Doc(paths, Absent) :
        paths \in UNION {[P -> PathItems] :
                            P \in {Q \in SUBSET PathPool :
                                      Cardinality(Q) \in 1..MaxPaths}}}

\* ---- DTO family: one component, an object of up to MaxProps properties
\* or a schema of another shape
PropSchemas ==
    {StrNode, RefNode(Task), RefNode(Str("Missing")), RefNode(a_dash_b),
     AllOfNode, ArrNode(RefNode(Task))}

PropNames == {Str("id"), Str("title"), a_dash_b}

ObjectNodes ==
    {[NoKeys EXCEPT !.type = Ok("object"), !.properties = Ok(props),
                    !.required = req] :
        props \in UNION {[P -> PropSchemas] :
                            P \in {Q \in SUBSET PropNames :
                                      Cardinality(Q) <= MaxProps}},
        req \in {Absent, Ok(<<Str("id")>>), Ok(<<Str("id"), Str("title")>>)}}

DtoNames == {Task, a_dash_b}

DtoDocs ==
    {Doc(<<>>, Schemas(name :> n)) :
        name \in DtoNames, n \in ObjectNodes \cup PropSchemas}

\* ---- two components and the /tasks route of the end-to-end scenario
TaskNode ==
    [NoKeys EXCEPT !.type = Ok("object"),
                   !.properties = Ok((Str("id") :> StrNode) @@ (Str("title") :> StrNode)),
                   !.required = Ok(<<Str("id"), Str("title")>>)]

ListTasks ==
    <<"/", "tasks">> :>
        [get |-> Ok(RawOp(Ok(Str("listTasks")), Absent, Ok("200"))),
         post |-> Absent, put |-> Absent, delete |-> Absent]

PairDocs ==
    {Doc(ListTasks, Schemas((n1 :> s1) @@ (n2 :> s2))) :
        n1 \in {Task}, n2 \in {a_dash_b, a_under_b},
        s1 \in {TaskNode, StrNode, RefNode(a_dash_b)},
        s2 \in {TaskNode, RefNode(Task), AllOfNode}}
    \cup
    {Doc(ListTasks, Schemas((a_dash_b :> s1) @@ (a_under_b :> s2))) :
        s1 \in {TaskNode, StrNode}, s2 \in {TaskNode, RefNode(Task)}}

\* ---- one component whose name is no identifier after sanitizing, or one
\* operation whose id is none, or that lacks its required `responses`
OddNameDocs ==
    {Doc(<<>>, Schemas(name :> n)) : name \in {one_x, <<>>}, n \in {StrNode, TaskNode}}
    \cup
    {Doc(<<"/", "tasks">> :> [get |-> Ok(o), post |-> Absent, put |-> Absent,
                               delete |-> Absent], Absent) :
        o \in {RawOp(Absent, Ok(one_x), Ok("200")), RawOp(Absent, Bad, Ok("200")),
                RawOp(Absent, Absent, Absent)}}

Documents == ShapeDocs \cup RouteDocs \cup DtoDocs \cup PairDocs \cup OddNameDocs

(***************************************************************************)
(* The run (cli/src/main.rs:24-38): parse the input, then generate.  The   *)
(* same input may be run again; history keeps the first run's result.     *)
(***************************************************************************)
Init ==
    /\ input \in Documents
    /\ pc = "start"
    /\ ir = None
    /\ out = None
    /\ history = <<>>

\* OpenApiSpec::from_yaml / from_json
Parse ==
    /\ pc = "start"
    /\ ir' = from_yaml(input)
    /\ IF ir'.k = "Ok"
       THEN pc' = "parsed" /\ out' = out
       ELSE pc' = "done" /\ out' = ir'
    /\ UNCHANGED <<input, history>>

\* CodeGenerator::generate_axum_app
Generate ==
    /\ pc = "parsed"
    /\ \E order \in Orders(ir) : out' = generate_axum_app(ir, order)
    /\ pc' = "done"
    /\ UNCHANGED <<input, ir, history>>

\* the pipeline is run once more on the same input
Rerun ==
    /\ pc = "done"
    /\ history' = IF Len(history) = 0 THEN <<out>> ELSE history
    /\ pc' = "start"
    /\ ir' = None
    /\ out' = None
    /\ UNCHANGED input

Next == Parse \/ Generate \/ Rerun

Spec == Init /\ [][Next]_vars

(***************************************************************************)
(* Vocabulary of the properties.                                           *)
(***************************************************************************)
Err(e) == [k |-> "Err", error |-> e]

\* a run has ended on a document the parser accepted
Lowered == pc = "done" /\ ir.k = "Ok"

Compositions == {"AllOf", "OneOf", "AnyOf", "Not"}

\* the top-level schemas of the parsed document
Components == IF ir.components # None THEN ir.components.v.schemas ELSE <<>>

HasProperties(schema) == schema.tag = "Object" /\ schema.properties # None

\* some schema the Type Mapper visits from `schema` (itself, or the items
\* below an array) is a composition
RECURSIVE ReachesComposition(_)
ReachesComposition(schema) ==
    \/ schema.tag \in Compositions
    \/ /\ schema.tag = "Object"
       /\ schema.type_ = Some("array")
       /\ schema.items # None
       /\ ReachesComposition(schema.items.v)

\* some schema the Type Mapper visits from `schema` is a Reference whose
\* last pointer segment is not in names
RECURSIVE ReachesMissing(_, _)
ReachesMissing(schema, names) ==
    \/ schema.tag = "Reference" /\ LastSegment(schema.ref_) \notin names
    \/ /\ schema.tag = "Object"
       /\ schema.type_ = Some("array")
       /\ schema.items # None
       /\ ReachesMissing(schema.items.v, names)

\* C1: a document with a composition schema, as a named component or as a
\* property or item schema the Type Mapper reaches
DocHasComposition ==
    \E name \in DOMAIN Components :
        LET schema == Components[name]
        IN  IF HasProperties(schema)
            THEN \E p \in DOMAIN schema.properties.v :
                    ReachesComposition(schema.properties.v[p])
            ELSE schema.tag # "Object" /\ ReachesComposition(schema)

\* C1: lowering a document that holds a composition schema ends the run
\* with an UnsupportedConstructError and produces no output.
C1_CompositionIsRejected ==
    (Lowered /\ DocHasComposition) => out = Err("UnsupportedConstructError")

\* C2: a document with a Reference to a name that is no key of
\* components.schemas
DocHasMissingReference ==
    \E name \in DOMAIN Components :
        LET schema == Components[name]
        IN  IF HasProperties(schema)
            THEN \E p \in DOMAIN schema.properties.v :
                    ReachesMissing(schema.properties.v[p], DOMAIN Components)
            ELSE schema.tag # "Object" /\ ReachesMissing(schema, DOMAIN Components)

\* C2: lowering a document with a Reference to a missing component fails
\* with an UnresolvedReferenceError: no type name is emitted for the
\* target and the run does not crash.
C2_MissingReferenceIsRejected ==
    (Lowered /\ DocHasMissingReference) => out = Err("UnresolvedReferenceError")

\* the handler name generate_handler builds for an operation of the IR
HandlerName(method, path, operation) ==
    IF operation.operation_id # None
    THEN sanitize_identifier(operation.operation_id.v)
    ELSE <<"handle", "_", method, "_">> \o sanitize_path(path)

\* the GET and POST operations of the parsed document
LoweredOps ==
    {<<path, m>> \in (DOMAIN ir.paths) \X {"get", "post"} : ir.paths[path][m] # None}

\* C3: two distinct schema names, or the raw names of two operations,
\* sanitize to the same identifier
DocHasCollision ==
    \/ \E n1, n2 \in DOMAIN Components :
          n1 # n2 /\ sanitize_identifier(n1) = sanitize_identifier(n2)
    \/ \E o1, o2 \in LoweredOps :
          /\ o1 # o2
          /\ HandlerName(o1[2], o1[1], ir.paths[o1[1]][o1[2]].v)
               = HandlerName(o2[2], o2[1], ir.paths[o2[1]][o2[2]].v)

\* C3: when two raw names of one namespace sanitize to the same identifier
\* the run fails with an IdentifierCollisionError.
C3_CollisionIsRejected ==
    (Lowered /\ DocHasCollision) => out = Err("IdentifierCollisionError")

\* C4: running the pipeline again on the same input yields the same output.
C4_SameInputSameOutput ==
    (pc = "done" /\ Len(history) > 0) => out = history[1]

\* the top-level schema nodes of the input
RawComponents ==
    IF input.components.k = "ok" THEN input.components.v.schemas ELSE <<>>

\* the parser has run
Parsed == pc \in {"parsed", "done"}

\* P(raw, parsed) for every named component and every property of a named
\* object component, once the document is parsed
EveryNode(P(_, _)) ==
    (Parsed /\ ir.k = "Ok") =>
        \A name \in DOMAIN RawComponents :
            LET r == RawComponents[name]
                q == Components[name]
            IN  /\ P(r, q)
                /\ (HasProperties(q) /\ r.properties.k = "ok") =>
                      \A p \in DOMAIN r.properties.v :
                          P(r.properties.v[p], q.properties.v[p])

\* C5 as first stated: a schema node that carries `$ref` parses to the
\* Reference variant, whatever else it carries.
C5_RefKeyIsReference ==
    EveryNode(LAMBDA r, q : r.ref # Absent => q.tag = "Reference")

\* C5: a schema node whose `$ref` holds a string parses to the Reference
\* variant, whatever other keys (well-typed or not) it carries, and such a
\* node never makes the parse fail.
C5_StringRefIsReference ==
    /\ EveryNode(LAMBDA r, q : r.ref.k = "ok" => q.tag = "Reference")
    /\ (/\ Parsed
        /\ DOMAIN input.paths = {}
        /\ \A name \in DOMAIN RawComponents : RawComponents[name].ref.k = "ok")
       => ir.k = "Ok"

\* C5: a parsed node with a string `$ref` beside `properties` and `type`
C5_Witness ==
    /\ Parsed /\ ir.k = "Ok"
    /\ \E name \in DOMAIN RawComponents :
          /\ RawComponents[name].ref.k = "ok"
          /\ RawComponents[name].properties # Absent
          /\ RawComponents[name].type # Absent
          /\ Components[name].tag = "Reference"

\* a node without `$ref` and composition keys whose keys are all well-typed
PlainNode(r) ==
    /\ \A key \in {"ref", "allOf", "oneOf", "anyOf", "not"} : r[key] = Absent
    /\ \A key \in SchemaKeys : r[key] # Bad
    /\ r.items # Ok(UnparsableNode)

\* C6: among nodes without `$ref` and composition keys, `type: array` with
\* `items` parses to ArrayType, `properties` or bare `type: object` to
\* Object, and any other typed node to SimpleType.
C6_VariantPrecedence ==
    EveryNode(LAMBDA r, q :
        PlainNode(r) =>
            IF r.type = Ok("array") /\ r.items.k = "ok" THEN q.tag = "ArrayType"
            ELSE IF r.properties.k = "ok" \/ r.type = Ok("object") THEN q.tag = "Object"
            ELSE r.type.k = "ok" => q.tag = "SimpleType")

\* the items of the whole output, in order
AllItems == out.top \o out.create_app

Count(items, x) == Cardinality({i \in 1..Len(items) : items[i] = x})

RouteEntry(method, path, handler) ==
    [kind |-> "route", path |-> path, method |-> method, handler |-> handler]

StubHandler(handler) == [kind |-> "fn", name |-> handler]

\* C7: every GET or POST operation of the input is routed to, and stubbed
\* as, its sanitized operationId when it declares one, and
\* handle_{method}_{sanitized path} when it declares none.
C7_HandlerNameFromOperationId ==
    (Lowered /\ out.k = "app") =>
        \A path \in DOMAIN input.paths : \A m \in {"get", "post"} :
            input.paths[path][m].k = "ok" =>
                LET o == input.paths[path][m].v
                    handler == IF o.operationId.k = "ok"
                               THEN sanitize_identifier(o.operationId.v)
                               ELSE <<"handle", "_", m, "_">> \o sanitize_path(path)
                IN  /\ Count(AllItems, RouteEntry(m, path, handler)) > 0
                    /\ Count(AllItems, StubHandler(handler)) > 0

\* the field the DTO Emitter owes property p of an object schema
ExpectedField(schema, p) ==
    LET resolved == schema_to_type(schema.properties.v[p])
        required == /\ schema.required # None
                    /\ \E i \in 1..Len(schema.required.v) : schema.required.v[i] = p
    IN  [ident |-> sanitize_identifier(p),
         ty |-> IF required THEN resolved ELSE TOption(resolved),
         pub |-> TRUE]

\* C8: the structure of an object schema with properties holds exactly one
\* field per property, of type resolve(property schema), optional exactly
\* when the property is not in the `required` list.
C8_FieldsFollowRequired ==
    (Lowered /\ out.k = "app") =>
        \A name \in DOMAIN Components :
            HasProperties(Components[name]) =>
                \E i \in 1..Len(out.top) :
                    /\ out.top[i].kind = "struct"
                    /\ out.top[i].name = sanitize_identifier(name)
                    /\ \E perm \in Perms(DOMAIN Components[name].properties.v) :
                          out.top[i].fields =
                              [j \in 1..Len(perm) |->
                                  ExpectedField(Components[name], perm[j])]

\* C8: an emitted structure with a required and a not required property
C8_Witness ==
    /\ Lowered /\ out.k = "app"
    /\ \E name \in DOMAIN Components :
          /\ HasProperties(Components[name])
          /\ Components[name].required = Some(<<Str("id")>>)
          /\ DOMAIN Components[name].properties.v = {Str("id"), Str("title")}
          /\ \E i \in 1..Len(out.top) :
                /\ out.top[i].kind = "struct"
                /\ Len(out.top[i].fields) = 2
                /\ \E j, l \in 1..2 :
                      /\ out.top[i].fields[j].ident = Str("id")
                      /\ out.top[i].fields[j].ty.t # "Option"
                      /\ out.top[i].fields[l].ident = Str("title")
                      /\ out.top[i].fields[l].ty.t = "Option"

\* C9: a Reference whose pointer ends in N, N a component, resolves to the
\* identifier under which the DTO of N is emitted: the sanitized N.
C9_ReferenceNamesTheDto ==
    Lowered =>
        \A name \in DOMAIN Components :
            LET schema == Components[name]
                names(ref) ==
                    (ref.tag = "Reference" /\ LastSegment(ref.ref_) \in DOMAIN Components)
                        => schema_to_type(ref) =
                              TIdent(sanitize_identifier(LastSegment(ref.ref_)))
            IN  /\ names(schema)
                /\ HasProperties(schema) =>
                      \A p \in DOMAIN schema.properties.v : names(schema.properties.v[p])

\* C10: the output holds exactly one stub handler and exactly one route
\* entry for each GET or POST operation, the entry inside the aggregate
\* entry-point, and no entry for PUT and DELETE.
C10_OneHandlerOneRoute ==
    (Lowered /\ out.k = "app") =>
        /\ \A o \in LoweredOps :
              LET handler == HandlerName(o[2], o[1], ir.paths[o[1]][o[2]].v)
              IN  /\ Count(AllItems, StubHandler(handler)) = 1
                  /\ Count(AllItems, RouteEntry(o[2], o[1], handler)) = 1
                  /\ Count(out.create_app, RouteEntry(o[2], o[1], handler)) = 1
        /\ \A i \in 1..Len(AllItems) :
              AllItems[i].kind = "route" => AllItems[i].method \in {"get", "post"}

\* the `type`, `format` and `items` a parsed schema holds, whatever its
\* variant
TypeOf(schema) == IF schema.tag = "Object" THEN schema.type_ ELSE Some(schema.type_)

FormatOf(schema) == IF schema.tag = "ArrayType" THEN None ELSE schema.format

ItemsOf(schema) ==
    IF schema.tag = "Object" THEN schema.items
    ELSE IF schema.tag = "ArrayType" THEN Some(schema.items)
    ELSE None

\* the policy table of the Type Mapper; a Reference or a composition below
\* an array is left to the Type Mapper
RECURSIVE PolicyType(_)
PolicyType(schema) ==
    IF schema.tag \notin {"Object", "SimpleType", "ArrayType"} THEN schema_to_type(schema)
    ELSE IF TypeOf(schema) = Some("string") THEN
        IF FormatOf(schema) = Some("uuid") THEN TPath("uuid::Uuid") ELSE TPath("String")
    ELSE IF TypeOf(schema) = Some("integer") THEN
        IF FormatOf(schema) = Some("int32") THEN TPath("i32") ELSE TPath("i64")
    ELSE IF TypeOf(schema) = Some("number") THEN TPath("f64")
    ELSE IF TypeOf(schema) = Some("boolean") THEN TPath("bool")
    ELSE IF TypeOf(schema) = Some("array") THEN
        IF ItemsOf(schema) # None THEN
            LET item_type == PolicyType(ItemsOf(schema).v)
            IN  IF item_type = Panic THEN Panic ELSE TVec(item_type)
        ELSE TVec(TPath("serde_json::Value"))
    ELSE TPath("serde_json::Value")

\* C11: for every schema that is no reference and no composition, the Type
\* Mapper follows the policy table: string/uuid -> UUID, string -> string,
\* integer/int32 -> i32, integer -> i64, number -> f64, boolean -> bool,
\* array with items -> sequence of resolve(items), array without items ->
\* sequence of generic values, anything else -> generic value.
C11_ResolveFollowsPolicy ==
    (Lowered /\ out.k = "app") =>
        \A name \in DOMAIN Components :
            LET schema == Components[name]
                follows(q) ==
                    q.tag \in {"Object", "SimpleType", "ArrayType"}
                        => schema_to_type(q) = PolicyType(q)
            IN  IF schema.tag = "Object"
                THEN HasProperties(schema) =>
                        \A p \in DOMAIN schema.properties.v :
                            follows(schema.properties.v[p])
                ELSE follows(schema)

\* the shapes of a schema node of the document
ReferenceShape(r) == r.ref.k = "ok"

ArrayShape(r) == PlainNode(r) /\ r.type = Ok("array") /\ r.items.k = "ok"

ObjectShape(r) ==
    /\ PlainNode(r) /\ ~ArrayShape(r)
    /\ r.properties.k = "ok" \/ r.type = Ok("object")

SimpleShape(r) ==
    /\ PlainNode(r) /\ ~ArrayShape(r) /\ ~ObjectShape(r)
    /\ r.type \in {Ok("string"), Ok("integer"), Ok("number"), Ok("boolean")}

NoProperties(schema) ==
    schema.properties = None \/ DOMAIN schema.properties.v = {}

\* the definitions emitted under the name of the component `name`
StructsOf(name) ==
    {i \in 1..Len(out.top) :
        out.top[i].kind = "struct" /\ out.top[i].name = sanitize_identifier(name)}

\* C12: every entry of components.schemas gets exactly one data-type
\* definition; the definition is empty only for an object schema without
\* properties, and a schema of simple, array or reference shape gets a
\* wrapper with the single field `value` of the type the Type Mapper gives
\* the schema.
C12_OneDefinitionPerSchema ==
    (Lowered /\ out.k = "app") =>
        /\ Cardinality({i \in 1..Len(out.top) : out.top[i].kind = "struct"})
              = Cardinality(DOMAIN RawComponents)
        /\ \A name \in DOMAIN RawComponents :
              LET r == RawComponents[name]
                  q == Components[name]
              IN  /\ StructsOf(name) # {}
                  /\ (\E i \in StructsOf(name) : out.top[i].fields = <<>>)
                        => q.tag = "Object" /\ NoProperties(q)
                  /\ (ReferenceShape(r) \/ ArrayShape(r) \/ SimpleShape(r))
                        => \E i \in StructsOf(name) :
                              out.top[i].fields =
                                  <<[ident |-> <<"value">>,
                                     ty |-> schema_to_type(q), pub |-> FALSE]>>

\* the sanitizer replaced every character that is no letter, digit or
\* underscore by an underscore and kept the others
Sanitized(raw, ident) ==
    /\ Len(ident) = Len(raw)
    /\ \A i \in 1..Len(raw) :
          ident[i] = IF raw[i] \in Letters \cup Digits \cup {"_"} THEN raw[i] ELSE "_"

\* C13: the identifier made from a schema name, a property name, an
\* operationId or a path is what the sanitizer's replacement rule gives and
\* is a valid identifier: non-empty, letters, digits and underscores only,
\* no digit in front.
C13_SanitizedIsIdentifier ==
    Lowered =>
        /\ \A name \in DOMAIN Components :
              /\ Sanitized(name, sanitize_identifier(name))
              /\ ValidIdent(sanitize_identifier(name))
              /\ HasProperties(Components[name]) =>
                    \A p \in DOMAIN Components[name].properties.v :
                        /\ Sanitized(p, sanitize_identifier(p))
                        /\ ValidIdent(sanitize_identifier(p))
        /\ \A op \in LoweredOps :
              LET operation == ir.paths[op[1]][op[2]].v
              IN  /\ ValidIdent(HandlerName(op[2], op[1], operation))
                  /\ operation.operation_id # None =>
                        Sanitized(operation.operation_id.v,
                                  sanitize_identifier(operation.operation_id.v))
                  /\ Sanitized(op[1], sanitize_path(op[1]))

====
